---- MODULE Spec2Model ----
(***************************************************************************)
(* remix-polyglot, src/src/client.tsx.                                     *)
(*                                                                         *)
(* Two layers of the client are modelled:                                  *)
(*   - the loader: load() with its two promise caches (indexes, phrases),  *)
(*     the fetches and the AbortSignals of its callers (Spec);             *)
(*   - the hook instrumentation: the wrapped loader/action of Handoff,     *)
(*     loadPhrases, the batch of a navigation tick and setLocale           *)
(*     (SpecHandoff).                                                      *)
(*                                                                         *)
(* JavaScript runs one job at a time.  A promise continuation is a         *)
(* microtask: the continuations of load() that wait for an index are kept  *)
(* in the FIFO queue microtasks, and a network completion (a macrotask)    *)
(* happens only when that queue is empty.                                  *)
(***************************************************************************)
EXTENDS Integers, Sequences, FiniteSets, TLC

\* ---------------------------------------------------------------- bounds
MaxCalls == 3
MaxHooks == 2
MaxTicks == 2

\* --------------------------------------------------------------- the data
Callers == 1..MaxCalls

\* Locales a caller may ask for; only those of Manifest have an index file
\* (options.manifest[locale]).
Locales == {"en", "xx"}
Manifest == {"en"}

\* Namespaces a caller may ask for, and those the index file of a locale
\* lists (the body of the index GET, when it succeeds).
Namespaces == {"common", "home", "missing"}
IndexBody(l) == {"common", "home"}

Ids == Locales \X Namespaces

NoArg == "-"

\* What a fetch (and the reading of its body) can end with.
FetchFailures == {"neterr", "non2xx", "malformed"}

VARIABLES
  called,        \* number of load() calls made so far; call c is the c-th
  cLocale,       \* cLocale[c]: the locale of call c
  cNamespace,    \* cNamespace[c]: the namespace of call c
  aborted,       \* aborted[c]: signal.aborted of call c's AbortSignal
  pc,            \* pc[c]: "idle", "awaitIndex", "awaitPhrase", "thrown"
  err,           \* err[c]: the error load() threw, or "none"
  awaitedIndex,  \* the index promise call c awaits (its creator), or 0
  returned,      \* the phrase promise call c returned (its creator), or 0
  indexState,    \* state of the index promise call c created, or "none"
  phraseState,   \* state of the phrase promise call c created, or "none"
  indexes,       \* caches.indexes: locale -> promise (its creator), 0: unset
  phrases,       \* caches.phrases: id -> promise (its creator), 0: unset
  microtasks,    \* load() continuations ready to run, in order
  prevFailure    \* history: how the previous call of the same id had failed
                 \* when call c was made ("none": it had not)

loaderVars == <<called, cLocale, cNamespace, aborted, pc, err, awaitedIndex,
                returned, indexState, phraseState, indexes, phrases,
                microtasks, prevFailure>>

\* The hook invocations (wrapped loader/action calls) and the navigation
\* ticks: the hooks of one tick are invoked in one synchronous job.
Hooks == 1..MaxHooks
Ticks == 1..MaxTicks

\* handoffData.locale, and the locales preloadTranslations may ask for.
InitialLocale == "en"
RequestedLocales == {"es", "fr"}

\* What `namespaces` of a hook may be when it is defined (a route's
\* namespaces, or those preloadTranslations names); never an empty list.
NamespaceRequests == {{"common"}, {"common", "home"}}

VARIABLES
  tick,          \* number of the latest navigation tick, 0 before the first
  tickOpen,      \* the synchronous job that invokes the tick's hooks runs
  invoked,       \* number of hook invocations so far; hook h is the h-th
  hTick,         \* hTick[h]: the tick of invocation h, 0: not invoked
  hLocale,       \* `locale` of invocation h, "none" for undefined
  hNamespaces,   \* `namespaces` of invocation h, {} when promisedPhrases is undefined
  hLoadLocale,   \* nextLocale || locale: the locale loadPhrases loads for
  hLoaded,       \* the namespaces whose load() has resolved in loadPhrases
  hLoad,         \* promisedPhrases: "none", "pending", "ok", "abort", "fail"
  hOrig,         \* original(args): "none", "pending", "ok", "fail"
  hpc,           \* "idle", "awaitAll", "returned", "threw"
  hRes,          \* what the wrapped hook returned or threw, <<>> before
  hCommit,       \* "no", "waiting" (setLocale chained on the aggregate), "done"
  ref,           \* ref[t]: batch.ref.current of the batch of tick t
  locale,        \* the provider's locale state
  store          \* the provider's store: id -> Lookup Entry, NoEntry: unset

handoffVars == <<tick, tickOpen, invoked, hTick, hLocale, hNamespaces,
                 hLoadLocale, hLoaded, hLoad, hOrig, hpc, hRes, hCommit, ref,
                 locale, store>>

vars == <<loaderVars, handoffVars>>

\* ------------------------------------------------------------ load(): helpers

\* const id = `${locale}-${namespace}`
Id(c) == <<cLocale[c], cNamespace[c]>>

\* The outcome of call c as its caller sees it: "none" while pending.
Result(c) ==
  CASE pc[c] = "thrown" -> err[c]
    [] pc[c] = "awaitPhrase" ->
         CASE phraseState[returned[c]] = "ok" -> "ok"
           [] phraseState[returned[c]] = "abort" -> "Cancelled"
           [] phraseState[returned[c]] = "fail" -> "PhraseLoadFailed"
           [] OTHER -> "none"
    [] OTHER -> "none"

Failures == {"MissingLocaleConfig", "IndexLoadFailed", "MissingNamespace",
             "PhraseLoadFailed", "Cancelled"}

\* The latest earlier call with the same id, 0 if there is none.
PreviousCall(l, n) ==
  LET same == {d \in 1..called : cLocale[d] = l /\ cNamespace[d] = n}
  IN IF same = {} THEN 0 ELSE CHOOSE d \in same : \A e \in same : e <= d

PreviousFailure(l, n) ==
  LET d == PreviousCall(l, n)
  IN IF d # 0 /\ Result(d) \in Failures THEN Result(d) ELSE "none"

\* Mutant of IndexEntryFor: the index cache is not looked at.
IndexEntryForUnchecked(l, c) == c

\* if (!indexes[locale]) { indexes[locale] = new Promise(...) }
\* The promise call c awaits: the cached one, or the one it creates.
IndexEntryFor(l, c) == IF indexes[l] = 0 THEN c ELSE indexes[l]

\* phrases[id] = new Promise(...): the continuation of load() stores its own
\* promise, whatever phrases[id] holds by then.
PhraseEntryFor(id, c) == c

\* Mutant of HasNamespace: the check of line 338 is left out.
HasNamespaceUnchecked(c) == TRUE

\* if (!index[namespace]) throw ...: the resolved index lists the namespace.
HasNamespace(c) == cNamespace[c] \in IndexBody(cLocale[c])

\* The calls waiting for index promise p, in the order they started to wait.
RECURSIVE InOrder(_)
InOrder(S) ==
  IF S = {} THEN <<>>
  ELSE LET m == CHOOSE x \in S : \A y \in S : x <= y
       IN <<m>> \o InOrder(S \ {m})

InQueue(c) == \E i \in 1..Len(microtasks) : microtasks[i] = c

Waiters(p) ==
  InOrder({c \in Callers : pc[c] = "awaitIndex" /\ awaitedIndex[c] = p
                           /\ ~InQueue(c)})

\* ------------------------------------------------------------ load(): steps

\* load(namespace, options, {locale}, caches, signal) up to its first await.
Load(l, n) ==
  LET c == called + 1
      id == <<l, n>>
      p == IndexEntryFor(l, c)
  IN /\ called < MaxCalls
     /\ called' = c
     /\ cLocale' = [cLocale EXCEPT ![c] = l]
     /\ cNamespace' = [cNamespace EXCEPT ![c] = n]
     /\ prevFailure' = [prevFailure EXCEPT ![c] = PreviousFailure(l, n)]
     /\ IF phrases[id] # 0
        THEN /\ pc' = [pc EXCEPT ![c] = "awaitPhrase"]
             /\ returned' = [returned EXCEPT ![c] = phrases[id]]
             /\ UNCHANGED <<err, awaitedIndex, indexState, indexes, microtasks>>
        ELSE IF l \notin Manifest
        THEN /\ pc' = [pc EXCEPT ![c] = "thrown"]
             /\ err' = [err EXCEPT ![c] = "MissingLocaleConfig"]
             /\ UNCHANGED <<returned, awaitedIndex, indexState, indexes,
                            microtasks>>
        ELSE /\ indexes' = [indexes EXCEPT ![l] = p]
             /\ indexState' = IF p = c
                              THEN [indexState EXCEPT ![c] = "pending"]
                              ELSE indexState
             /\ awaitedIndex' = [awaitedIndex EXCEPT ![c] = p]
             /\ pc' = [pc EXCEPT ![c] = "awaitIndex"]
             /\ microtasks' = IF indexState'[p] = "pending"
                              THEN microtasks
                              ELSE Append(microtasks, c)
             /\ UNCHANGED <<err, returned>>
     /\ UNCHANGED <<aborted, phraseState, phrases>>
     /\ UNCHANGED handoffVars

\* The caller's AbortController aborts while its call is pending (abort() is
\* called by the router from an event handler: a macrotask).
Abort(c) ==
  /\ c <= called
  /\ microtasks = <<>>
  /\ ~aborted[c]
  /\ Result(c) = "none"
  /\ aborted' = [aborted EXCEPT ![c] = TRUE]
  /\ UNCHANGED <<called, cLocale, cNamespace, pc, err, awaitedIndex, returned,
                 indexState, phraseState, indexes, phrases, microtasks,
                 prevFailure>>
  /\ UNCHANGED handoffVars

\* What the fetch of call p's producer can end with: an AbortError once the
\* signal handed to it has aborted, otherwise a response or a failure.
FetchOutcomes(p) ==
  IF aborted[p] THEN {"abort"} ELSE {"ok"} \cup FetchFailures

\* The state a producer's promise takes for a fetch outcome: resolve(...),
\* reject(err) for an AbortError, reject(new Error(...)) for anything else.
Settled(outcome) ==
  CASE outcome = "ok" -> "ok"
    [] outcome = "abort" -> "abort"
    [] OTHER -> "fail"

\* Mutant of IndexesAfterCatch: the rejected index promise stays cached.
IndexesAfterCatchKept(p) == indexes

\* catch (err) { delete indexes[locale]; ... }
IndexesAfterCatch(p) == [indexes EXCEPT ![cLocale[p]] = 0]

\* Mutant of PhrasesAfterCatch: the rejected phrase promise stays cached.
PhrasesAfterCatchKept(p) == phrases

\* catch (err) { delete phrases[id]; ... }
PhrasesAfterCatch(p) == [phrases EXCEPT ![Id(p)] = 0]

\* The executor of the index promise of call p runs on after its fetch.
IndexSettles(p, outcome) ==
  /\ microtasks = <<>>
  /\ indexState[p] = "pending"
  /\ outcome \in FetchOutcomes(p)
  /\ indexState' = [indexState EXCEPT ![p] = Settled(outcome)]
  /\ indexes' = IF outcome = "ok" THEN indexes ELSE IndexesAfterCatch(p)
  /\ microtasks' = microtasks \o Waiters(p)
  /\ UNCHANGED <<called, cLocale, cNamespace, aborted, pc, err, awaitedIndex,
                 returned, phraseState, phrases, prevFailure>>
  /\ UNCHANGED handoffVars

\* load() runs on after `await indexes[locale]`.
Resume ==
  /\ microtasks # <<>>
  /\ LET c == Head(microtasks)
         p == awaitedIndex[c]
     IN /\ microtasks' = Tail(microtasks)
        /\ IF indexState[p] = "abort"
           THEN /\ pc' = [pc EXCEPT ![c] = "thrown"]
                /\ err' = [err EXCEPT ![c] = "Cancelled"]
                /\ UNCHANGED <<returned, phraseState, phrases>>
           ELSE IF indexState[p] = "fail"
           THEN /\ pc' = [pc EXCEPT ![c] = "thrown"]
                /\ err' = [err EXCEPT ![c] = "IndexLoadFailed"]
                /\ UNCHANGED <<returned, phraseState, phrases>>
           ELSE IF ~HasNamespace(c)
           THEN /\ pc' = [pc EXCEPT ![c] = "thrown"]
                /\ err' = [err EXCEPT ![c] = "MissingNamespace"]
                /\ UNCHANGED <<returned, phraseState, phrases>>
           ELSE /\ phrases' = [phrases EXCEPT ![Id(c)] = PhraseEntryFor(Id(c), c)]
                /\ phraseState' = [phraseState EXCEPT ![c] = "pending"]
                /\ returned' = [returned EXCEPT ![c] = phrases'[Id(c)]]
                /\ pc' = [pc EXCEPT ![c] = "awaitPhrase"]
                /\ UNCHANGED err
  /\ UNCHANGED <<called, cLocale, cNamespace, aborted, awaitedIndex,
                 indexState, indexes, prevFailure>>
  /\ UNCHANGED handoffVars

\* The executor of the phrase promise of call p runs on after its fetch.
PhraseSettles(p, outcome) ==
  /\ microtasks = <<>>
  /\ phraseState[p] = "pending"
  /\ outcome \in FetchOutcomes(p)
  /\ phraseState' = [phraseState EXCEPT ![p] = Settled(outcome)]
  /\ phrases' = IF outcome = "ok" THEN phrases ELSE PhrasesAfterCatch(p)
  /\ UNCHANGED <<called, cLocale, cNamespace, aborted, pc, err, awaitedIndex,
                 returned, indexState, indexes, microtasks, prevFailure>>
  /\ UNCHANGED handoffVars

\* ------------------------------------------------- Handoff: the batch
\* batcher(0) of ichschwoer/batch-resolve is not part of the sources; it is
\* modelled from the description of the Navigation Batcher: one batch per
\* tick, holding the shared flag and the registered loads.

\* batch.ref of invocation h: the flag object of the batch of its tick.
BatchOf(h) == hTick[h]

\* The loads accumulated in the batch up to and including the push of
\* invocation h (an undefined promisedPhrases is not accumulated).
Registered(h) ==
  {g \in Hooks : hTick[g] = hTick[h] /\ g <= h /\ hLoad[g] # "none"}

\* allPhrasesLoaded of invocation h has settled: it settles, always
\* successfully, once every load of Registered(h) has settled.
AggregateSettled(h) == \A g \in Registered(h) : hLoad[g] # "pending"

\* ------------------------------------------------- Handoff: the wrapped hook
\* In this layer a load() call of loadPhrases is seen by its outcome alone: it
\* resolves, or it rejects with an AbortError ("abort") or with another error
\* ("fail"); the first layer shows that load() can end in each of these ways.

\* What original(args) of invocation h resolves to, or rejects with, and the
\* error of a rejected promisedPhrases.
OrigValue(h) == <<"value", h>>
OrigError(h) == <<"error", h>>
LoadError(h) == <<"loadError", h>>

\* The ids the store may have an entry for: `${locale}-${namespace}` for the
\* locales and namespaces the hooks may load.
StoreKeys == ({InitialLocale} \cup RequestedLocales) \X UNION NamespaceRequests

\* store[id] of an id the store has no property for (undefined).
NoEntry == <<>>

\* initiatePolyglot(locale, ns, options, phrases) of ./common is not part of
\* the sources; it is modelled from the description of the Lookup Builder: it
\* gives the pair [id, Lookup Entry], the entry being a new object bound to
\* the locale at every call (b: the loadPhrases call that built it, 0: setup).
initiatePolyglot(l, n, b) == <<<<l, n>>, <<l, n, b>>>>

\* Mutant of Merge: the store is replaced by the new entries.
MergeReplacing(current, more) == more

\* { ...current, ...more }
Merge(current, more) ==
  [k \in StoreKeys |-> IF more[k] # NoEntry THEN more[k] ELSE current[k]]

\* Object.fromEntries(...) over the pairs built for the namespaces in S by
\* loadPhrases of invocation h.
Entries(h, S) ==
  [k \in StoreKeys |->
     IF k[1] = hLoadLocale[h] /\ k[2] \in S
     THEN initiatePolyglot(k[1], k[2], h)[2]
     ELSE NoEntry]

\* `more` of loadPhrases of invocation h: one entry per namespace.
More(h) == Entries(h, hNamespaces[h])

\* Mutant of StoreAfterLoad: the entry of a namespace is merged as soon as
\* its load() has resolved.
StoreAfterLoadEach(h, loaded) == Merge(store, Entries(h, loaded))

\* The store once the load() calls of the namespaces in loaded have resolved
\* in loadPhrases of invocation h: updateStore comes after
\* `await Promise.all(...)`, so only once all of them have.
StoreAfterLoad(h, loaded) ==
  IF loaded = hNamespaces[h] THEN Merge(store, More(h)) ELSE store

\* Mutant of Caught: no rejection is swallowed.
CaughtNothing(l) == IF l = "abort" THEN "fail" ELSE l

\* Mutant of Caught: only an AbortError is swallowed, another error is
\* thrown on.
CaughtAbortOnly(l) ==
  CASE l = "pending" -> "pending"
    [] l = "fail" -> "fail"
    [] OTHER -> "ok"

\* promisedPhrases?.catch((err) => { ... }): every rejection is turned into
\* a resolution (an AbortError silently, another error after console.error).
Caught(l) == IF l = "pending" THEN "pending" ELSE "ok"

\* Promise.all([original(args), promisedPhrases?.catch(...)])
AllState(o, l) ==
  CASE o = "fail" \/ Caught(l) = "fail" -> "rejected"
    [] o = "ok" /\ Caught(l) = "ok" -> "resolved"
    [] OTHER -> "pending"

\* Mutant of MayCommit: `locale` is not looked at.
MayCommitAnyHook(h) == ~ref[BatchOf(h)]

\* Mutant of MayCommit: the shared flag is not looked at.
MayCommitUnguarded(h) == hLocale[h] # "none"

\* if (!ref.current && locale)
MayCommit(h) == ~ref[BatchOf(h)] /\ hLocale[h] # "none"

\* The wrapped hook runs on after `await Promise.all([...])`, original(args)
\* being in state o and promisedPhrases in state l.
AfterAll(h, o, l) ==
  IF hpc[h] = "awaitAll" /\ AllState(o, l) = "rejected"
  THEN /\ hpc' = [hpc EXCEPT ![h] = "threw"]
       /\ hRes' = [hRes EXCEPT ![h] = IF o = "fail" THEN OrigError(h)
                                                    ELSE LoadError(h)]
       /\ UNCHANGED <<ref, hCommit>>
  ELSE IF hpc[h] = "awaitAll" /\ AllState(o, l) = "resolved"
  THEN /\ hpc' = [hpc EXCEPT ![h] = "returned"]
       /\ hRes' = [hRes EXCEPT ![h] = OrigValue(h)]
       /\ IF MayCommit(h)
          THEN /\ ref' = [ref EXCEPT ![BatchOf(h)] = TRUE]
               /\ hCommit' = [hCommit EXCEPT ![h] = "waiting"]
          ELSE UNCHANGED <<ref, hCommit>>
  ELSE UNCHANGED <<hpc, hRes, ref, hCommit>>

\* A navigation starts: the router is about to invoke the matched hooks.
StartTick ==
  /\ ~tickOpen
  /\ tick < MaxTicks
  /\ invoked < MaxHooks
  /\ tick' = tick + 1
  /\ tickOpen' = TRUE
  /\ UNCHANGED <<invoked, hTick, hLocale, hNamespaces, hLoadLocale, hLoaded,
                 hLoad, hOrig, hpc, hRes, hCommit, ref, locale, store>>
  /\ UNCHANGED loaderVars

\* route[method](args) up to its await: preloadTranslations gives l (or no
\* locale) and the namespaces ns ({}: none), loadPhrases and original start.
Invoke(l, ns) ==
  LET h == invoked + 1
  IN /\ tickOpen
     /\ invoked < MaxHooks
     /\ invoked' = h
     /\ hTick' = [hTick EXCEPT ![h] = tick]
     /\ hLocale' = [hLocale EXCEPT ![h] = l]
     /\ hNamespaces' = [hNamespaces EXCEPT ![h] = ns]
     /\ hLoadLocale' = [hLoadLocale EXCEPT ![h] =
                          IF ns = {} THEN "none"
                          ELSE IF l = "none" THEN locale ELSE l]
     /\ hLoad' = [hLoad EXCEPT ![h] = IF ns = {} THEN "none" ELSE "pending"]
     /\ hOrig' = [hOrig EXCEPT ![h] = "pending"]
     /\ hpc' = [hpc EXCEPT ![h] = "awaitAll"]
     /\ UNCHANGED <<tick, tickOpen, hLoaded, hRes, hCommit, ref, locale, store>>
     /\ UNCHANGED loaderVars

\* The synchronous job that invoked the hooks of the tick ends.
EndTick ==
  /\ tickOpen
  /\ \E h \in Hooks : hTick[h] = tick
  /\ tickOpen' = FALSE
  /\ UNCHANGED <<tick, invoked, hTick, hLocale, hNamespaces, hLoadLocale,
                 hLoaded, hLoad, hOrig, hpc, hRes, hCommit, ref, locale, store>>
  /\ UNCHANGED loaderVars

\* original(args) of invocation h settles.
OrigSettles(h, o) ==
  /\ ~tickOpen
  /\ hOrig[h] = "pending"
  /\ hOrig' = [hOrig EXCEPT ![h] = o]
  /\ AfterAll(h, o, hLoad[h])
  /\ UNCHANGED <<tick, tickOpen, invoked, hTick, hLocale, hNamespaces,
                 hLoadLocale, hLoaded, hLoad, locale, store>>
  /\ UNCHANGED loaderVars

\* Within loadPhrases of invocation h, load() of namespace n resolves; with
\* the last one Promise.all resolves, the store is updated and
\* promisedPhrases resolves.
LoadResolves(h, n) ==
  /\ ~tickOpen
  /\ hLoad[h] = "pending"
  /\ n \in hNamespaces[h] \ hLoaded[h]
  /\ hLoaded' = [hLoaded EXCEPT ![h] = @ \cup {n}]
  /\ store' = StoreAfterLoad(h, hLoaded'[h])
  /\ IF hLoaded'[h] = hNamespaces[h]
     THEN /\ hLoad' = [hLoad EXCEPT ![h] = "ok"]
          /\ AfterAll(h, hOrig[h], "ok")
     ELSE UNCHANGED <<hLoad, hpc, hRes, ref, hCommit>>
  /\ UNCHANGED <<tick, tickOpen, invoked, hTick, hLocale, hNamespaces,
                 hLoadLocale, hOrig, locale>>
  /\ UNCHANGED loaderVars

\* Within loadPhrases of invocation h, load() of namespace n rejects (kind
\* "abort": with an AbortError): Promise.all and promisedPhrases reject.
LoadRejects(h, n, kind) ==
  /\ ~tickOpen
  /\ hLoad[h] = "pending"
  /\ n \in hNamespaces[h] \ hLoaded[h]
  /\ hLoad' = [hLoad EXCEPT ![h] = kind]
  /\ AfterAll(h, hOrig[h], kind)
  /\ UNCHANGED <<tick, tickOpen, invoked, hTick, hLocale, hNamespaces,
                 hLoadLocale, hLoaded, hOrig, locale, store>>
  /\ UNCHANGED loaderVars

\* allPhrasesLoaded.then(() => { setLocale(locale) }) of invocation h runs.
Commit(h) ==
  /\ ~tickOpen
  /\ hCommit[h] = "waiting"
  /\ AggregateSettled(h)
  /\ hCommit' = [hCommit EXCEPT ![h] = "done"]
  /\ locale' = hLocale[h]
  /\ UNCHANGED <<tick, tickOpen, invoked, hTick, hLocale, hNamespaces,
                 hLoadLocale, hLoaded, hLoad, hOrig, hpc, hRes, ref, store>>
  /\ UNCHANGED loaderVars

\* ------------------------------------------------------------ specification

InitLoader ==
  /\ called = 0
  /\ cLocale = [c \in Callers |-> NoArg]
  /\ cNamespace = [c \in Callers |-> NoArg]
  /\ aborted = [c \in Callers |-> FALSE]
  /\ pc = [c \in Callers |-> "idle"]
  /\ err = [c \in Callers |-> "none"]
  /\ awaitedIndex = [c \in Callers |-> 0]
  /\ returned = [c \in Callers |-> 0]
  /\ indexState = [c \in Callers |-> "none"]
  /\ phraseState = [c \in Callers |-> "none"]
  /\ indexes = [l \in Locales |-> 0]
  /\ phrases = [id \in Ids |-> 0]
  /\ microtasks = <<>>
  /\ prevFailure = [c \in Callers |-> "none"]

InitHandoff ==
  /\ tick = 0
  /\ tickOpen = FALSE
  /\ invoked = 0
  /\ hTick = [h \in Hooks |-> 0]
  /\ hLocale = [h \in Hooks |-> "none"]
  /\ hNamespaces = [h \in Hooks |-> {}]
  /\ hLoadLocale = [h \in Hooks |-> "none"]
  /\ hLoaded = [h \in Hooks |-> {}]
  /\ hLoad = [h \in Hooks |-> "none"]
  /\ hOrig = [h \in Hooks |-> "none"]
  /\ hpc = [h \in Hooks |-> "idle"]
  /\ hRes = [h \in Hooks |-> <<>>]
  /\ hCommit = [h \in Hooks |-> "no"]
  /\ ref = [t \in Ticks |-> FALSE]
  /\ locale = InitialLocale
  /\ store = [k \in StoreKeys |->
               IF k = <<InitialLocale, "common">>
               THEN initiatePolyglot(InitialLocale, "common", 0)[2]
               ELSE NoEntry]

Init == InitLoader /\ InitHandoff

Next ==
  \/ \E l \in Locales, n \in Namespaces : Load(l, n)
  \/ \E c \in Callers : Abort(c)
  \/ \E p \in Callers, o \in {"ok", "abort"} \cup FetchFailures : IndexSettles(p, o)
  \/ Resume
  \/ \E p \in Callers, o \in {"ok", "abort"} \cup FetchFailures : PhraseSettles(p, o)

Spec == Init /\ [][Next]_vars

NextHandoff ==
  \/ StartTick
  \/ \E l \in {"none"} \cup RequestedLocales, ns \in {{}} \cup NamespaceRequests :
       Invoke(l, ns)
  \/ EndTick
  \/ \E h \in Hooks, o \in {"ok", "fail"} : OrigSettles(h, o)
  \/ \E h \in Hooks, n \in Namespaces : LoadResolves(h, n)
  \/ \E h \in Hooks, n \in Namespaces, k \in {"abort", "fail"} : LoadRejects(h, n, k)
  \/ \E h \in Hooks : Commit(h)

SpecHandoff == Init /\ [][NextHandoff]_vars

\* What the event loop guarantees: the synchronous job that invokes the hooks
\* of a tick runs to its end, and the reaction chained on a settled promise
\* (allPhrasesLoaded.then) is run.  Nothing makes a fetch or original(args)
\* settle.
FairHandoff ==
  /\ WF_vars(\E l \in {"none"} \cup RequestedLocales,
                ns \in {{}} \cup NamespaceRequests : Invoke(l, ns))
  /\ WF_vars(EndTick)
  /\ \A h \in Hooks : WF_vars(Commit(h))

SpecHandoffLive == SpecHandoff /\ FairHandoff

\* ------------------------------------------------------------ loader claims

Made == 1..called

\* A call whose outcome is still open: not settled, and not waiting for an
\* index promise that has already been rejected.
Live(c) ==
  /\ c \in Made
  /\ Result(c) = "none"
  /\ ~(pc[c] = "awaitIndex" /\ indexState[awaitedIndex[c]] \in {"fail", "abort"})

LiveCalls(id) == {c \in Made : Id(c) = id /\ Live(c)}

\* C1 (as claimed): calls of load with the same (locale, namespace) that are
\* pending together have issued at most one index GET and at most one
\* phrase-set GET between them, and those of them that returned a phrase
\* promise returned the same one.
C1_ConcurrentLoadsShareGets ==
  \A id \in Ids :
    LET U == LiveCalls(id)
    IN /\ Cardinality({c \in U : indexState[c] # "none"}) <= 1
       /\ Cardinality({c \in U : phraseState[c] # "none"}) <= 1
       /\ \A c, d \in U :
            (pc[c] = "awaitPhrase" /\ pc[d] = "awaitPhrase")
              => returned[c] = returned[d]

\* A producer of call a ends with an AbortError in this step.
CancelTakesEffect(a) ==
  \/ indexState[a] = "pending" /\ indexState'[a] = "abort"
  \/ phraseState[a] = "pending" /\ phraseState'[a] = "abort"

\* Call b, whose signal has not aborted, waits for the cached promise.
AwaitsIndexEntry(b, l) ==
  /\ b \in Made /\ ~aborted[b]
  /\ indexes[l] # 0
  /\ pc[b] = "awaitIndex" /\ awaitedIndex[b] = indexes[l]

AwaitsPhraseEntry(b, id) ==
  /\ b \in Made /\ ~aborted[b]
  /\ phrases[id] # 0
  /\ pc[b] = "awaitPhrase" /\ returned[b] = phrases[id]
  /\ phraseState[phrases[id]] = "pending"

\* C4 (as claimed): when the cancellation of caller a takes effect, every
\* cache entry (index or phrase set) that another caller b with an unfired
\* token is awaiting stays in the cache.
C4_CancelKeepsAwaitedEntries ==
  [][\A a \in Callers :
       CancelTakesEffect(a) =>
         /\ \A l \in Locales :
              (\E b \in Callers \ {a} : AwaitsIndexEntry(b, l))
                => indexes'[l] = indexes[l]
         /\ \A id \in Ids :
              (\E b \in Callers \ {a} : AwaitsPhraseEntry(b, id))
                => phrases'[id] = phrases[id]]_vars

\* C5 (as claimed): an index or phrase entry that has settled successfully
\* stays in the cache in every later step, and no later GET is issued for
\* its resource.
C5_SuccessEntriesStay ==
  [][/\ \A l \in Locales :
          (indexes[l] # 0 /\ indexState[indexes[l]] = "ok")
            => /\ indexes'[l] = indexes[l]
               /\ \A c \in Callers :
                    (cLocale'[c] = l /\ indexState[c] = "none")
                      => indexState'[c] = "none"
     /\ \A id \in Ids :
          (phrases[id] # 0 /\ phraseState[phrases[id]] = "ok")
            => /\ phrases'[id] = phrases[id]
               /\ \A c \in Callers :
                    (Id(c) = id /\ phraseState[c] = "none")
                      => phraseState'[c] = "none"]_vars

\* The failures that come from a GET: a failed or aborted fetch of a producer.
GetFailures == {"IndexLoadFailed", "PhraseLoadFailed", "Cancelled"}

\* Call c issued a GET of its own (its producer created a promise).
OwnGet(c) == indexState[c] # "none" \/ phraseState[c] # "none"

\* The latest call before c with the same id, 0 if there is none.
PrevOf(c) ==
  LET same == {d \in 1..(c - 1) : Id(d) = Id(c)}
  IN IF same = {} THEN 0 ELSE CHOOSE d \in same : \A e \in same : e <= d

NotReplayed(c) ==
  LET d == PrevOf(c)
  IN prevFailure[c] \in GetFailures =>
       /\ (/\ awaitedIndex[c] # 0
           /\ awaitedIndex[d] # 0
           /\ indexState[awaitedIndex[d]] \in {"fail", "abort"})
            => awaitedIndex[c] # awaitedIndex[d]
       /\ (returned[c] # 0 /\ returned[d] # 0) => returned[c] # returned[d]

\* Call c, made after a failure that no GET caused, fails the same way again
\* without a GET.
RecomputedWithoutGet(c) ==
  prevFailure[c] \in {"MissingLocaleConfig", "MissingNamespace"} =>
    /\ ~OwnGet(c)
    /\ Result(c) \in {"none", prevFailure[c]}

C7_FailedEntryEvicted ==
  /\ \A l \in Locales :
       indexes[l] # 0 => indexState[indexes[l]] \in {"pending", "ok"}
  /\ \A id \in Ids :
       phrases[id] # 0 => phraseState[phrases[id]] \in {"pending", "ok"}
  /\ \A c \in Made :
       (/\ pc[c] = "thrown"
        /\ awaitedIndex[c] # 0
        /\ indexState[awaitedIndex[c]] = "fail")
         => /\ err[c] = "IndexLoadFailed"
            /\ indexes[cLocale[c]] # awaitedIndex[c]

\* C7 witness: one call has seen IndexLoadFailed, another PhraseLoadFailed,
\* and both keys are empty in the tables.
C7_Witness ==
  \E c, d \in Made :
    /\ err[c] = "IndexLoadFailed"
    /\ Result(d) = "PhraseLoadFailed"
    /\ phrases[Id(d)] = 0

\* C8 (as claimed): a call whose own signal aborted before the call
\* completed has failed with Cancelled once it has completed.
C8_AbortedCallIsCancelled ==
  \A c \in Made :
    (aborted[c] /\ Result(c) # "none") => Result(c) = "Cancelled"

\* C9: a call whose namespace the index does not list never issues a
\* phrase-set GET and leaves no phrase entry for its id, and throws
\* MissingNamespace once it has run on from a resolved index; every
\* phrase-set GET was issued by a call whose awaited index had resolved.
C9_NoPhraseGetWithoutIndexEntry ==
  \A c \in Made :
    /\ phraseState[c] # "none" =>
         /\ awaitedIndex[c] # 0
         /\ indexState[awaitedIndex[c]] = "ok"
         /\ cNamespace[c] \in IndexBody(cLocale[c])
    /\ cNamespace[c] \notin IndexBody(cLocale[c]) =>
         /\ phraseState[c] = "none"
         /\ phrases[Id(c)] = 0
         /\ (/\ awaitedIndex[c] # 0
             /\ indexState[awaitedIndex[c]] = "ok"
             /\ ~InQueue(c))
              => (pc[c] = "thrown" /\ err[c] = "MissingNamespace")

\* C9 witness: one call threw MissingNamespace with no phrase entry for its
\* id, while another call of the locale issued its phrase-set GET.
C9_Witness ==
  \E c, d \in Made :
    /\ err[c] = "MissingNamespace"
    /\ phrases[Id(c)] = 0
    /\ cLocale[d] = cLocale[c]
    /\ phraseState[d] # "none"

\* The calls whose producer issued an index GET for locale l that has not
\* failed: in flight, or answered successfully.
IndexGets(l) ==
  {c \in Made : cLocale[c] = l /\ indexState[c] \in {"pending", "ok"}}

\* Call c, having run on from the index promise it awaited, shows the result
\* of that promise.
ObservesIndexEntry(c) ==
  LET p == awaitedIndex[c]
  IN (p # 0 /\ ~InQueue(c) /\ indexState[p] # "pending") =>
       CASE indexState[p] = "abort" -> pc[c] = "thrown" /\ err[c] = "Cancelled"
         [] indexState[p] = "fail" ->
              pc[c] = "thrown" /\ err[c] = "IndexLoadFailed"
         [] OTHER -> \/ pc[c] = "awaitPhrase"
                     \/ pc[c] = "thrown" /\ err[c] = "MissingNamespace"

\* C11: a load of a locale whose index entry is in flight or has settled
\* successfully issues no index GET and leaves the entry in place, and when it
\* needs the index it awaits that very entry; so each locale has at most one
\* index GET that has not failed, the cached one, and every call shows the
\* result of the entry it awaited.
C11_OneIndexGetPerLocale ==
  [][/\ \A c \in Callers :
          (called' = c /\ called = c - 1 /\ indexes[cLocale'[c]] # 0) =>
            /\ indexState'[c] = "none"
            /\ indexes' = indexes
            /\ awaitedIndex'[c] \in {0, indexes[cLocale'[c]]}
            /\ (phrases[Id(c)'] = 0 => awaitedIndex'[c] = indexes[cLocale'[c]])
     /\ \A l \in Locales :
          /\ Cardinality(IndexGets(l)') <= 1
          /\ \A p \in IndexGets(l)' : indexes'[l] = p
     /\ \A c \in Callers : (c \in 1..called') => ObservesIndexEntry(c)']_vars

\* C11 witness: three loads of one locale, not all of one namespace, awaited
\* the entry the first created, which resolved; no other index GET was issued
\* and all three ran on.
C11_Witness ==
  /\ called = 3
  /\ \A c \in 1..3 : awaitedIndex[c] = 1 /\ cLocale[c] = cLocale[1]
  /\ cNamespace[2] # cNamespace[1]
  /\ indexState[1] = "ok"
  /\ \A c \in 2..3 : indexState[c] = "none"
  /\ \A c \in 1..3 : pc[c] # "awaitIndex"

\* C17 (as claimed): a call that has failed with Cancelled is one whose own
\* signal has aborted (a signal cannot abort after its call has completed).
C17_CancelledOnlyByOwnToken ==
  \A c \in Made : Result(c) = "Cancelled" => aborted[c]

\* ------------------------------------------------------------ Handoff claims

\* The invocations of tick t that have called setLocale.
Committed(t) == {h \in Hooks : hTick[h] = t /\ hCommit[h] = "done"}

\* C2: in every tick at most one invocation calls setLocale, however many
\* invocations of the tick asked for a locale.
C2_AtMostOneCommitPerTick ==
  \A t \in Ticks : Cardinality(Committed(t)) <= 1

\* C2 witness: two invocations of one tick asked for different locales, both
\* have returned, and one of them has called setLocale.
C2_Witness ==
  \E h, g \in Hooks :
    /\ h # g /\ hTick[h] = hTick[g] /\ hTick[h] # 0
    /\ hLocale[h] # "none" /\ hLocale[g] # "none" /\ hLocale[h] # hLocale[g]
    /\ hpc[h] = "returned" /\ hpc[g] = "returned"
    /\ hCommit[h] = "done"

\* C3 (as claimed): when an invocation calls setLocale, every load registered
\* in its tick has settled, those registered after its own push included.
C3_CommitAfterAllLoadsOfTick ==
  [][\A h \in Hooks :
       (hCommit[h] = "waiting" /\ hCommit'[h] = "done")
         => \A g \in Hooks : hTick[g] = hTick[h] => hLoad[g] # "pending"]_vars

\* C10: a wrapped hook that returned returned the value of original(args), one
\* that threw threw the error of original(args), and once original(args) has
\* resolved and promisedPhrases has settled in any way the wrapped hook has
\* returned.
C10_HookResultIsOriginals ==
  \A h \in Hooks :
    /\ hpc[h] = "returned" => (hOrig[h] = "ok" /\ hRes[h] = OrigValue(h))
    /\ hpc[h] = "threw" => (hOrig[h] = "fail" /\ hRes[h] = OrigError(h))
    /\ (hOrig[h] = "ok" /\ hLoad[h] # "pending") => hpc[h] = "returned"

\* C10 witness: one wrapped hook returned although its load failed, another
\* although its load was aborted.
C10_Witness ==
  \E h, g \in Hooks :
    /\ hLoad[h] = "fail" /\ hpc[h] = "returned" /\ hRes[h] = OrigValue(h)
    /\ hLoad[g] = "abort" /\ hpc[g] = "returned" /\ hRes[g] = OrigValue(g)

\* The ids the store has an entry for.
Keys(st) == {k \in StoreKeys : st[k] # NoEntry}

\* C12: the store changes only by merging the entries of one loadPhrases
\* call; a merge removes no id, leaves the entry of every id that is not
\* among the new entries as it was and gives the others the new entry; and
\* merging the same entries a second time gives the store of merging them
\* once.
C12_MergeIsAdditiveUnion ==
  [][/\ store' # store =>
          \E h \in Hooks : store' = Merge(store, More(h))
     /\ \A h \in Hooks :
          LET once == Merge(store, More(h))
          IN /\ Keys(store) \subseteq Keys(once)
             /\ Keys(once) = Keys(store) \cup Keys(More(h))
             /\ \A k \in StoreKeys :
                  once[k] = IF k \in Keys(More(h)) THEN More(h)[k]
                                                   ELSE store[k]
             /\ Merge(once, More(h)) = once]_vars

\* C12 witness: the store holds the entry one loadPhrases call built for the
\* id that had an entry from the start (the earlier value was replaced), next
\* to an entry another call built for an id that the first did not load.
C12_Witness ==
  \E h, g \in Hooks :
    /\ h # g
    /\ store[<<InitialLocale, "common">>] =
         initiatePolyglot(InitialLocale, "common", h)[2]
    /\ \E k \in StoreKeys :
         /\ store[k] = initiatePolyglot(k[1], k[2], g)[2]
         /\ More(h)[k] = NoEntry

\* The loadPhrases calls that have called initiatePolyglot for id k: those
\* for its locale whose load() of its namespace has resolved.
Builders(k) ==
  {h \in Hooks : hLoadLocale[h] = k[1] /\ k[2] \in hLoaded[h]}

\* C13 (as claimed): over the loadPhrases calls of a session, the entry of
\* each (locale, namespace) whose Phrase Set was loaded is built exactly once,
\* also when a later call is given the cached Phrase Set.
C13_BuiltOncePerPair ==
  \A k \in StoreKeys : Cardinality(Builders(k)) <= 1

\* The invocations of tick t that asked for a locale, and the first of them
\* in invocation order (the order of their pushes).
Requesters(t) == {h \in Hooks : hTick[h] = t /\ hLocale[h] # "none"}

FirstRequester(t) == CHOOSE h \in Requesters(t) : \A g \in Requesters(t) : h <= g

\* C14 (as claimed): when the invocations of a tick that asked for a locale
\* have all returned, the one that set the shared flag and took the commit is
\* the first of them in invocation order, none of the later ones.
C14_FirstRegisteredCommits ==
  \A h \in Hooks :
    (/\ hCommit[h] # "no"
     /\ \A g \in Requesters(hTick[h]) : hpc[g] = "returned")
      => h = FirstRequester(hTick[h])

\* C15 (as claimed): a wrapped hook that has returned its result did so after
\* the aggregate of the loads registered in its batch had settled.
C15_ReturnsAfterAggregate ==
  \A h \in Hooks : hpc[h] = "returned" => AggregateSettled(h)

\* C16 (as claimed): when an invocation calls setLocale(L), the store holds an
\* entry for (L, ns) for every namespace ns the invocation asked for, so that
\* usePolyglot(ns) does not throw after the commit.
C16_CommitHasEntries ==
  [][\A h \in Hooks :
       (hCommit[h] = "waiting" /\ hCommit'[h] = "done")
         => \A n \in hNamespaces[h] : store'[<<hLocale[h], n>>] # NoEntry]_vars

\* The ids whose entry in the store was built by loadPhrases of invocation h.
MergedBy(h) ==
  {k \in StoreKeys : store[k] = initiatePolyglot(k[1], k[2], h)[2]}

\* C18: the step in which a load() of loadPhrases fails leaves the store as
\* it was, and as long as loadPhrases has not resolved (some load pending or
\* failed, others possibly resolved and cached) the store has no entry it
\* built; the step in which the last load() resolves merges the entries of
\* all the requested namespaces at once.
C18_LoadPhrasesAllOrNothing ==
  [][\A h \in Hooks :
       /\ (hLoad[h] = "pending" /\ hLoad'[h] \in {"abort", "fail"})
            => store' = store
       /\ hLoad'[h] # "ok" => MergedBy(h)' = {}
       /\ (hLoad[h] = "pending" /\ hLoad'[h] = "ok")
            => /\ store' = Merge(store, More(h))
               /\ MergedBy(h)' = {hLoadLocale[h]} \X hNamespaces[h]]_vars

\* C18 witness: one loadPhrases call over two namespaces failed after the
\* load of one of them had resolved and left nothing in the store, another
\* over two namespaces resolved and both its entries are in the store.
C18_Witness ==
  \E h, g \in Hooks :
    /\ Cardinality(hNamespaces[h]) = 2 /\ Cardinality(hLoaded[h]) = 1
    /\ hLoad[h] = "fail" /\ MergedBy(h) = {}
    /\ Cardinality(hNamespaces[g]) = 2 /\ hLoad[g] = "ok"
    /\ Cardinality(MergedBy(g)) = 2

\* Invocation h runs on from its await in this step (it returns or throws).
Finishes(h) == hpc[h] = "awaitAll" /\ hpc'[h] # "awaitAll"

\* C19: the flag of a batch is set only in the step in which an invocation of
\* its tick that asked for a locale returns, original(args) having resolved,
\* and that invocation takes the commit; an invocation without a locale, or
\* whose original(args) failed, finishes without touching the flag or taking
\* a commit, so the flag of a tick is set only when one of its invocations
\* has taken the commit.
C19_FlagSetOnlyByRequester ==
  [][/\ \A t \in Ticks :
          ref'[t] # ref[t] =>
            \E h \in Hooks :
              /\ hTick[h] = t /\ Finishes(h) /\ hpc'[h] = "returned"
              /\ hLocale[h] # "none" /\ hOrig'[h] = "ok"
              /\ hCommit[h] = "no" /\ hCommit'[h] = "waiting"
     /\ \A h \in Hooks :
          (Finishes(h) /\ (hLocale[h] = "none" \/ hOrig'[h] = "fail"))
            => (ref' = ref /\ hCommit' = hCommit /\ hCommit[h] = "no")
     /\ \A t \in Ticks :
          ref'[t] <=> \E h \in Hooks : hTick'[h] = t /\ hCommit'[h] # "no"]_vars

\* C19 witness: an invocation that asked for a locale threw because its
\* original(args) failed and took no commit, and an invocation registered
\* after it in the same tick has called setLocale.
C19_Witness ==
  \E h, g \in Hooks :
    /\ h < g /\ hTick[h] = hTick[g]
    /\ hLocale[h] # "none" /\ hpc[h] = "threw" /\ hCommit[h] = "no"
    /\ hCommit[g] = "done"

\* Invocation h asked for a locale, its original(args) has resolved and every
\* load registered in its batch has settled.
CommitDue(h) ==
  /\ hTick[h] # 0
  /\ hLocale[h] # "none"
  /\ hOrig[h] = "ok"
  /\ \A g \in Hooks : hTick[g] = hTick[h] => hLoad[g] # "pending"

\* C20: once an invocation of a tick that asked for a locale has seen its
\* original(args) resolve and every load registered in the batch has settled
\* (resolved, failed or aborted), exactly one invocation of the tick
\* eventually calls setLocale.
C20_CommitEventually ==
  \A h \in Hooks :
    CommitDue(h) ~> (Cardinality(Committed(hTick[h])) = 1)

\* C20 witness: in a tick with a failed load and two invocations that asked
\* for a locale and returned, one of them has called setLocale.
C20_Witness ==
  \E h, g \in Hooks :
    /\ h # g /\ hTick[h] = hTick[g]
    /\ CommitDue(h) /\ CommitDue(g)
    /\ hLoad[h] \in {"abort", "fail"}
    /\ Cardinality(Committed(hTick[h])) = 1

====
